---- MODULE Spec2Model ----
(***************************************************************************)
(* Nova flood-awareness chat: the widget's turn logic (NovaChat.tsx) and   *)
(* the serverless chat handler (supabase/functions/chat/index.ts).         *)
(*                                                                         *)
(* Texts are sequences of strings.  A text that the handler inspects       *)
(* (a user message, a quick-reply label, a model reply) is a sequence of   *)
(* one-character strings, so that toLowerCase() and includes() are         *)
(* computed character by character.  Fixed prose that is only ever copied  *)
(* (the system prompt, the greeting, error messages) is a sequence of      *)
(* longer pieces; a template literal is the concatenation of its pieces.   *)
(***************************************************************************)
EXTENDS Integers, Sequences, FiniteSets, TLC

VARIABLES messages, isLoading, turns, store, toasts, calls

vars == <<messages, isLoading, turns, store, toasts, calls>>

(***************************************************************************)
(* Bounds of the model.                                                    *)
(***************************************************************************)
\* number of turns (handleResponse executions) the user starts
MaxTurns == 2
\* length of the context of a request posted directly to the handler
MaxHist == 5
\* number of fragments a directly posted message is made of
MaxFrags == 2

(***************************************************************************)
(* Program constants.                                                      *)
(***************************************************************************)
\* messages.slice(-5)
ContextWindow == 5

(***************************************************************************)
(* Texts of the program.                                                   *)
(***************************************************************************)
systemPrompt ==
    <<"You are Nova, a flood awareness and emergency response assistant. ",
      "Current location context: Chennai, Tamil Nadu, India ",
      "Emergency contacts: Police: 100, Flood Control: 1913, Emergency Services: 108">>

GreetingText ==
    <<"Hi! I'm Nova, your flood awareness assistant. How can I help you today?">>

GenericFailure == "Failed to get response. Please try again."

SignInNotice == "Please sign in to send messages."

CorrectedNotice == "I've corrected some spelling to better understand your question."

OptLearn ==
    <<"L", "e", "a", "r", "n", " ", "a", "b", "o", "u", "t", " ", "f", "l", "o", "o", "d", " ", "r", "i", "s", "k", "s">>

OptCheck ==
    <<"C", "h", "e", "c", "k", " ", "e", "m", "e", "r", "g", "e", "n", "c", "y", " ", "p", "r", "e", "p", "a", "r", "e", "d", "n", "e", "s", "s">>

OptAlerts ==
    <<"G", "e", "t", " ", "l", "o", "c", "a", "l", " ", "f", "l", "o", "o", "d", " ", "a", "l", "e", "r", "t", "s">>

OptRecovery ==
    <<"P", "o", "s", "t", "-", "f", "l", "o", "o", "d", " ", "r", "e", "c", "o", "v", "e", "r", "y", " ", "h", "e", "l", "p">>

OptLocation ==
    <<"S", "e", "t", " ", "m", "y", " ", "l", "o", "c", "a", "t", "i", "o", "n">>

OptTellMore ==
    <<"T", "e", "l", "l", " ", "m", "e", " ", "m", "o", "r", "e">>

OptNext ==
    <<"W", "h", "a", "t", " ", "s", "h", "o", "u", "l", "d", " ", "I", " ", "d", "o", " ", "n", "e", "x", "t", "?">>

OptMenu ==
    <<"B", "a", "c", "k", " ", "t", "o", " ", "m", "a", "i", "n", " ", "m", "e", "n", "u">>

OptPrepare ==
    <<"H", "o", "w", " ", "c", "a", "n", " ", "I", " ", "p", "r", "e", "p", "a", "r", "e", "?">>

OptContacts ==
    <<"S", "h", "o", "w", " ", "e", "m", "e", "r", "g", "e", "n", "c", "y", " ", "c", "o", "n", "t", "a", "c", "t", "s">>

OptLocalAlerts ==
    <<"G", "e", "t", " ", "l", "o", "c", "a", "l", " ", "a", "l", "e", "r", "t", "s">>

OptCall ==
    <<"C", "a", "l", "l", " ", "e", "m", "e", "r", "g", "e", "n", "c", "y", " ", "s", "e", "r", "v", "i", "c", "e", "s">>

OptEvacuate ==
    <<"E", "v", "a", "c", "u", "a", "t", "i", "o", "n", " ", "g", "u", "i", "d", "e", "l", "i", "n", "e", "s">>

OptShelter ==
    <<"F", "i", "n", "d", " ", "s", "h", "e", "l", "t", "e", "r">>

KeyFloodRisk ==
    <<"f", "l", "o", "o", "d", " ", "r", "i", "s", "k">>

KeyEmergency ==
    <<"e", "m", "e", "r", "g", "e", "n", "c", "y">>

(***************************************************************************)
(* Messages (interface Message): options is an optional field.             *)
(***************************************************************************)
initialOptions == <<OptLearn, OptCheck, OptAlerts, OptRecovery, OptLocation>>

initialMessages ==
    <<[type |-> "bot", content |-> GreetingText, options |-> initialOptions]>>

UserMsg(text) == [type |-> "user", content |-> text]

HasOptions(msg) == "options" \in DOMAIN msg

(***************************************************************************)
(* String.prototype.toLowerCase, includes and trim, character by character.*)
(***************************************************************************)
UpperCase ==
    <<"A", "B", "C", "D", "E", "F", "G", "H", "I", "J", "K", "L", "M",
      "N", "O", "P", "Q", "R", "S", "T", "U", "V", "W", "X", "Y", "Z">>

LowerCase ==
    <<"a", "b", "c", "d", "e", "f", "g", "h", "i", "j", "k", "l", "m",
      "n", "o", "p", "q", "r", "s", "t", "u", "v", "w", "x", "y", "z">>

LowerChar(c) ==
    IF \E i \in DOMAIN UpperCase : UpperCase[i] = c
    THEN LowerCase[CHOOSE i \in DOMAIN UpperCase : UpperCase[i] = c]
    ELSE c

toLowerCase(s) == [i \in DOMAIN s |-> LowerChar(s[i])]

includes(s, sub) ==
    \E i \in 0..(Len(s) - Len(sub)) : SubSeq(s, i + 1, i + Len(sub)) = sub

RECURSIVE trimStart(_)
trimStart(s) ==
    IF s # <<>> /\ Head(s) = " " THEN trimStart(Tail(s)) ELSE s

RECURSIVE trimEnd(_)
trimEnd(s) ==
    IF s # <<>> /\ s[Len(s)] = " " THEN trimEnd(SubSeq(s, 1, Len(s) - 1)) ELSE s

trim(s) == trimEnd(trimStart(s))

\* slice(0, n): the first n elements
sliceFirst(s, n) ==
    IF Len(s) <= n THEN s ELSE SubSeq(s, 1, n)

\* Array.prototype.slice(-n): the last n elements, all of them when fewer
sliceLast(s, n) ==
    IF Len(s) <= n THEN s ELSE SubSeq(s, Len(s) - n + 1, Len(s))

(***************************************************************************)
(* The chat handler, index.ts.                                             *)
(***************************************************************************)
\* the history kept in a module-level array that earlier requests filled
conversationHistoryRetained(context, message) ==
    LET earlier == SelectSeq(calls, LAMBDA k : k.fetches > 0)
    IN <<[role |-> "system", content |-> systemPrompt]>>
       \o [i \in DOMAIN earlier |-> [role |-> "user", content |-> earlier[i].message]]
       \o [i \in DOMAIN context |->
             [role |-> IF context[i].type = "user" THEN "user" ELSE "assistant",
              content |-> context[i].content]]
       \o <<[role |-> "user", content |-> message]>>

\* the system prompt pushed after the context instead of unshifted
conversationHistorySystemPushed(context, message) ==
    [i \in DOMAIN context |->
          [role |-> IF context[i].type = "user" THEN "user" ELSE "assistant",
           content |-> context[i].content]]
    \o <<[role |-> "system", content |-> systemPrompt]>>
    \o <<[role |-> "user", content |-> message]>>

\* the context with every entry given the assistant role
conversationHistoryAllAssistant(context, message) ==
    <<[role |-> "system", content |-> systemPrompt]>>
    \o [i \in DOMAIN context |->
          [role |-> "assistant", content |-> context[i].content]]
    \o <<[role |-> "user", content |-> message]>>

\* context.map(...), unshift(system), push(user message)
conversationHistory(context, message) ==
    <<[role |-> "system", content |-> systemPrompt]>>
    \o [i \in DOMAIN context |->
          [role |-> IF context[i].type = "user" THEN "user" ELSE "assistant",
           content |-> context[i].content]]
    \o <<[role |-> "user", content |-> message]>>

defaultOptions == <<OptTellMore, OptNext, OptMenu>>

floodRiskOptions == <<OptPrepare, OptContacts, OptLocalAlerts>>

emergencyOptions == <<OptCall, OptEvacuate, OptShelter>>

\* the rules tried in the other order: emergency before flood risk
chooseOptionsEmergencyFirst(message) ==
    IF includes(toLowerCase(message), KeyEmergency) THEN emergencyOptions
    ELSE IF includes(toLowerCase(message), KeyFloodRisk) THEN floodRiskOptions
    ELSE defaultOptions

\* let options = default; if (...'flood risk') ... else if (...'emergency') ...
chooseOptions(message) ==
    IF includes(toLowerCase(message), KeyFloodRisk) THEN floodRiskOptions
    ELSE IF includes(toLowerCase(message), KeyEmergency) THEN emergencyOptions
    ELSE defaultOptions

\* const aiMessage: Message = { type: 'bot', content: ..., options }
aiMessageOf(text, message) ==
    [type |-> "bot", content |-> text, options |-> chooseOptions(message)]

\* `DeepSeek API error: ${errorData.error?.message || 'Unknown error'}`
upstreamErrorMessage(errText) ==
    <<"DeepSeek API error: ">> \o (IF errText = <<>> THEN <<"Unknown error">> ELSE errText)

corsHeaders ==
    ("Access-Control-Allow-Origin" :> "*")
    @@ ("Access-Control-Allow-Headers" :>
           "authorization, x-client-info, apikey, content-type")

\* { ...corsHeaders, 'Content-Type': 'application/json' }
jsonHeaders == ("Content-Type" :> "application/json") @@ corsHeaders

\* the catch block without status: 500
errorResponseStatusOk(errMessage) ==
    [status |-> 200, headers |-> jsonHeaders,
     body |-> [error |-> <<GenericFailure>>, details |-> errMessage]]

\* the response of the catch block
errorResponse(errMessage) ==
    [status |-> 500, headers |-> jsonHeaders,
     body |-> [error |-> <<GenericFailure>>, details |-> errMessage]]

\* the response of the success path
okResponse(aiMessage) ==
    [status |-> 200, headers |-> jsonHeaders, body |-> aiMessage]

\* new Response(null, { headers: corsHeaders })
preflightResponse == [status |-> 200, headers |-> corsHeaders, body |-> <<>>]

NoResponse == [status |-> 0, headers |-> <<>>, body |-> <<>>]

(***************************************************************************)
(* What the external chat-completion endpoint can answer.                  *)
(***************************************************************************)
TextOk == <<"o", "k">>

ModelTexts == {TextOk, KeyFloodRisk}

UpstreamErrorTexts == {<<>>, <<"Invalid API key">>}

UpstreamAnswers ==
    {[ok |-> TRUE, choices |-> TRUE, text |-> t] : t \in ModelTexts}
    \cup {[ok |-> TRUE, choices |-> FALSE, text |-> <<>>]}
    \cup {[ok |-> FALSE, choices |-> FALSE, text |-> e] : e \in UpstreamErrorTexts}

\* the answers given to the invocations made by the widget
TurnAnswers ==
    {a \in UpstreamAnswers : a.text \in {TextOk, <<>>}}

\* messages of the exceptions the runtime raises
JsonSyntaxError == <<"Unexpected token in JSON">>

ChoicesTypeError == <<"Cannot read properties of undefined (reading '0')">>

(***************************************************************************)
(* Handler invocations.  calls[c] is one request to the handler.           *)
(***************************************************************************)
NewCall(method, parsable, message, context) ==
    [method |-> method, parsable |-> parsable,
     message |-> message, context |-> context,
     pc |-> "received", history |-> <<>>, fetches |-> 0,
     answer |-> [ok |-> FALSE, choices |-> FALSE, text |-> <<>>],
     logged |-> <<>>, resp |-> NoResponse]

\* the preflight test left out
isPreflightNever(method) == FALSE

\* if (req.method === 'OPTIONS')
isPreflight(method) == method = "OPTIONS"

\* the handler up to its await of fetch(): preflight, req.json(), the context
HandlerReceive(c) ==
    /\ c \in DOMAIN calls
    /\ calls[c].pc = "received"
    /\ LET call == calls[c] IN
       calls' = [calls EXCEPT ![c] =
          IF isPreflight(call.method)
          THEN [call EXCEPT !.pc = "done", !.resp = preflightResponse]
          ELSE IF ~call.parsable
          THEN [call EXCEPT !.pc = "done",
                            !.logged = Append(@, JsonSyntaxError),
                            !.resp = errorResponse(JsonSyntaxError)]
          ELSE [call EXCEPT !.pc = "fetching",
                            !.history = conversationHistory(call.context, call.message),
                            !.fetches = @ + 1]]
    /\ UNCHANGED <<messages, isLoading, turns, store, toasts>>

\* a non-success answer followed by a second fetch
handlerFinishRetry(call, answer) ==
    IF ~answer.ok /\ call.fetches < 2
    THEN [call EXCEPT !.fetches = @ + 1]
    ELSE IF ~answer.ok
    THEN [call EXCEPT !.pc = "done", !.answer = answer,
                      !.logged = Append(@, upstreamErrorMessage(answer.text)),
                      !.resp = errorResponse(upstreamErrorMessage(answer.text))]
    ELSE IF ~answer.choices
    THEN [call EXCEPT !.pc = "done", !.answer = answer,
                      !.logged = Append(@, ChoicesTypeError),
                      !.resp = errorResponse(ChoicesTypeError)]
    ELSE [call EXCEPT !.pc = "done", !.answer = answer,
                      !.resp = okResponse(aiMessageOf(answer.text, call.message))]

\* the reply read as data.choices?.[0]?.message?.content: no exception when
\* the choices are missing
handlerFinishOptionalChaining(call, answer) ==
    IF ~answer.ok
    THEN [call EXCEPT !.pc = "done", !.answer = answer,
                      !.logged = Append(@, upstreamErrorMessage(answer.text)),
                      !.resp = errorResponse(upstreamErrorMessage(answer.text))]
    ELSE [call EXCEPT !.pc = "done", !.answer = answer,
                      !.resp = okResponse(aiMessageOf(answer.text, call.message))]

\* the handler from the answer of fetch() to its response
handlerFinish(call, answer) ==
    IF ~answer.ok
    THEN [call EXCEPT !.pc = "done", !.answer = answer,
                      !.logged = Append(@, upstreamErrorMessage(answer.text)),
                      !.resp = errorResponse(upstreamErrorMessage(answer.text))]
    ELSE IF ~answer.choices
    THEN [call EXCEPT !.pc = "done", !.answer = answer,
                      !.logged = Append(@, ChoicesTypeError),
                      !.resp = errorResponse(ChoicesTypeError)]
    ELSE [call EXCEPT !.pc = "done", !.answer = answer,
                      !.resp = okResponse(aiMessageOf(answer.text, call.message))]

HandlerRespond(c, answer) ==
    /\ c \in DOMAIN calls
    /\ calls[c].pc = "fetching"
    /\ calls' = [calls EXCEPT ![c] = handlerFinish(calls[c], answer)]
    /\ UNCHANGED <<messages, isLoading, turns, store, toasts>>

(***************************************************************************)
(* The widget, NovaChat.tsx.  turns[t] is one execution of handleResponse. *)
(***************************************************************************)
InHello == <<"h", "e", "l", "l", "o">>

InBlank == <<" ", " ">>

InFlod == <<"f", "l", "o", "d", " ", "r", "i", "s", "k">>

\* what the user types into the input box
Inputs == {InBlank, InFlod}

\* autocorrect() of @/utils/autocorrect: fixes known misspellings
autocorrect(input) == IF input = InFlod THEN KeyFloodRisk ELSE input

UserId == "user-1"

\* the quick replies on screen: the options of every message of the log
OptionsShown ==
    UNION {{messages[i].options[j] : j \in DOMAIN messages[i].options} :
             i \in {k \in DOMAIN messages : HasOptions(messages[k])}}

\* the quick replies the user clicks, among those on screen
ClickedLabels == {OptLearn, OptContacts}

Toast(variant, description, t) ==
    [variant |-> variant, description |-> description, turn |-> t]

\* handleResponse up to its first await: setIsLoading(true), getSession()
\* `closure` is the messages state of the render the handler was created in
NewTurn(via, userMessage, closure) ==
    [via |-> via, userMessage |-> userMessage, closure |-> closure,
     pc |-> "getSession", session |-> "pending",
     userInsert |-> "pending", userRow |-> 0,
     call |-> 0, botInsert |-> "pending", botRow |-> 0]

\* the busy flag left as it is when the turn ends
finallyLoadingKept(loading) == loading

\* finally { setIsLoading(false) }
finallyLoading(loading) == FALSE

\* the toast of the catch block showing the error itself
catchNoticeDetail == "Error: request failed"

\* description of the toast of the catch block
catchNotice == GenericFailure

\* catch (error) { toast(generic) } finally { ... }
Caught(t) ==
    /\ toasts' = Append(toasts, Toast("destructive", catchNotice, t))
    /\ isLoading' = finallyLoading(isLoading)

\* if (!input.trim() || isLoading) return
sendAccepted(input, loading) == trim(input) # <<>> /\ ~loading

handleSend(input) ==
    /\ Len(turns) < MaxTurns
    /\ sendAccepted(input, isLoading)
    /\ LET correctedInput == autocorrect(input)
           t == Len(turns) + 1
       IN /\ toasts' = IF correctedInput # input
                       THEN Append(toasts, Toast("default", CorrectedNotice, t))
                       ELSE toasts
          /\ turns' = Append(turns, NewTurn("send", correctedInput, messages))
    /\ isLoading' = TRUE
    /\ UNCHANGED <<messages, store, calls>>

\* whether a click on a quick reply starts a turn: handleOptionClick has no guard
optionAccepted(loading) == TRUE

handleOptionClick(option) ==
    /\ Len(turns) < MaxTurns
    /\ option \in OptionsShown
    /\ optionAccepted(isLoading)
    /\ messages' = Append(messages, UserMsg(option))
    /\ turns' = Append(turns, NewTurn("option", option, messages))
    /\ isLoading' = TRUE
    /\ UNCHANGED <<store, toasts, calls>>

\* await supabase.auth.getSession() settles
SessionResults == {"ok", "none", "error"}

\* the session check left out
sessionMissingIgnored(result) == FALSE

\* if (!session)
sessionMissing(result) == result = "none"

SessionResolved(t, result) ==
    /\ t \in DOMAIN turns
    /\ turns[t].pc = "getSession"
    /\ IF result = "error"
       THEN /\ turns' = [turns EXCEPT ![t].session = result, ![t].pc = "done"]
            /\ Caught(t)
       ELSE IF sessionMissing(result)
       THEN /\ turns' = [turns EXCEPT ![t].session = result, ![t].pc = "done"]
            /\ toasts' = Append(toasts, Toast("destructive", SignInNotice, t))
            /\ isLoading' = finallyLoading(isLoading)
       ELSE /\ turns' = [turns EXCEPT ![t].session = result, ![t].pc = "insertUser"]
            /\ UNCHANGED <<toasts, isLoading>>
    /\ UNCHANGED <<messages, store, calls>>

\* the body of supabase.functions.invoke('chat', ...)
invokeBody(turn) ==
    [message |-> turn.userMessage, context |-> sliceLast(turn.closure, ContextWindow)]

\* the insert error left unchecked
insertFailedIgnored(ok) == FALSE

\* if (insertError) throw insertError
insertFailed(ok) == ~ok

\* await insert of the user message settles; then the handler is invoked
UserInsertResolved(t, ok) ==
    /\ t \in DOMAIN turns
    /\ turns[t].pc = "insertUser"
    /\ store' = IF ok
                THEN Append(store, [content |-> turns[t].userMessage,
                                    type |-> "user", user_id |-> UserId])
                ELSE store
    /\ IF insertFailed(ok)
       THEN /\ turns' = [turns EXCEPT ![t].userInsert = IF ok THEN "ok" ELSE "error",
                                      ![t].userRow = IF ok THEN Len(store) + 1 ELSE 0,
                                      ![t].pc = "done"]
            /\ Caught(t)
            /\ UNCHANGED calls
       ELSE /\ calls' = Append(calls, NewCall("POST", TRUE, invokeBody(turns[t]).message,
                                              invokeBody(turns[t]).context))
            /\ turns' = [turns EXCEPT ![t].userInsert = IF ok THEN "ok" ELSE "error",
                                      ![t].userRow = IF ok THEN Len(store) + 1 ELSE 0,
                                      ![t].call = Len(calls) + 1,
                                      ![t].pc = "invoke"]
            /\ UNCHANGED <<toasts, isLoading>>
    /\ UNCHANGED messages

\* response.error left unchecked, the body of the answer taken as the reply
responseErrorIgnored(resp) == FALSE

\* if (response.error) throw response.error: a non-2xx answer is an error
responseError(resp) == resp.status # 200

\* await functions.invoke settles; on success the bot insert is issued
InvokeResolved(t) ==
    /\ t \in DOMAIN turns
    /\ turns[t].pc = "invoke"
    /\ calls[turns[t].call].pc = "done"
    /\ IF responseError(calls[turns[t].call].resp)
       THEN /\ turns' = [turns EXCEPT ![t].pc = "done"]
            /\ Caught(t)
       ELSE /\ turns' = [turns EXCEPT ![t].pc = "insertBot"]
            /\ UNCHANGED <<toasts, isLoading>>
    /\ UNCHANGED <<messages, store, calls>>

\* aiMessage.content: undefined when the object has no such property
contentOf(aiMessage) ==
    IF "content" \in DOMAIN aiMessage THEN aiMessage.content ELSE <<"undefined">>

\* setMessages(prev => [...prev, { type: 'user', content: userMessage }, aiMessage])
appendTurn(prev, userMessage, aiMessage) ==
    prev \o <<UserMsg(userMessage), aiMessage>>

\* the error of the bot insert left unchecked
botInsertFailedIgnored(ok) == FALSE

\* if (botInsertError) throw botInsertError
botInsertFailed(ok) == ~ok

\* await insert of the bot message settles
BotInsertResolved(t, ok) ==
    /\ t \in DOMAIN turns
    /\ turns[t].pc = "insertBot"
    /\ LET aiMessage == calls[turns[t].call].resp.body IN
       /\ store' = IF ok
                   THEN Append(store, [content |-> contentOf(aiMessage), type |-> "bot"])
                   ELSE store
       /\ turns' = [turns EXCEPT ![t].botInsert = IF ok THEN "ok" ELSE "error",
                                 ![t].botRow = IF ok THEN Len(store) + 1 ELSE 0,
                                 ![t].pc = "done"]
       /\ IF botInsertFailed(ok)
          THEN /\ Caught(t)
               /\ UNCHANGED messages
          ELSE /\ messages' = appendTurn(messages, turns[t].userMessage, aiMessage)
               /\ isLoading' = finallyLoading(isLoading)
               /\ UNCHANGED toasts
    /\ UNCHANGED calls

(***************************************************************************)
(* Specifications.                                                         *)
(***************************************************************************)
Init ==
    /\ messages = initialMessages
    /\ isLoading = FALSE
    /\ turns = <<>>
    /\ store = <<>>
    /\ toasts = <<>>
    /\ calls = <<>>

UserAction ==
    \/ \E input \in Inputs : handleSend(input)
    \/ \E option \in ClickedLabels : handleOptionClick(option)

Progress ==
    \/ \E t \in DOMAIN turns, r \in SessionResults : SessionResolved(t, r)
    \/ \E t \in DOMAIN turns, ok \in BOOLEAN : UserInsertResolved(t, ok)
    \/ \E t \in DOMAIN turns : InvokeResolved(t)
    \/ \E t \in DOMAIN turns, ok \in BOOLEAN : BotInsertResolved(t, ok)
    \/ \E c \in DOMAIN calls : HandlerReceive(c)
    \/ \E c \in DOMAIN calls, a \in TurnAnswers : HandlerRespond(c, a)

Next == UserAction \/ Progress

Spec == Init /\ [][Next]_vars

\* every pending promise settles: the session, the writes, the invocation
LiveSpec == Spec /\ WF_vars(Progress)

(***************************************************************************)
(* The widget at its start or later in a conversation, with the log and    *)
(* the store as two successful typed turns leave them.                     *)
(***************************************************************************)
UserRow(text) == [content |-> text, type |-> "user", user_id |-> UserId]

BotRow(text) == [content |-> text, type |-> "bot"]

LogAfterSends ==
    appendTurn(appendTurn(initialMessages,
                          KeyFloodRisk, aiMessageOf(TextOk, KeyFloodRisk)),
               KeyFloodRisk, aiMessageOf(TextOk, KeyFloodRisk))

StoreAfterSends ==
    <<UserRow(KeyFloodRisk), BotRow(TextOk), UserRow(KeyFloodRisk), BotRow(TextOk)>>

\* turns and calls count the executions from here on
WindowInit ==
    /\ \/ messages = initialMessages /\ store = <<>>
       \/ messages = LogAfterSends /\ store = StoreAfterSends
    /\ isLoading = FALSE
    /\ turns = <<>>
    /\ toasts = <<>>
    /\ calls = <<>>

WindowSpec == WindowInit /\ [][Next]_vars

(***************************************************************************)
(* Requests posted directly to the handler: any message, any context.      *)
(***************************************************************************)
FragFloodRisk ==
    <<"F", "l", "o", "o", "d", " ", "R", "i", "s", "k">>

FragEMERGENCY ==
    <<"E", "M", "E", "R", "G", "E", "N", "C", "Y">>

FragHi ==
    <<"h", "i", " ">>

FragFlood ==
    <<"f", "l", "o", "o", "d", " ">>

FragRisk ==
    <<"r", "i", "s", "k">>

Fragments == {FragFloodRisk, FragEMERGENCY, FragHi, FragFlood, FragRisk, KeyEmergency}

RECURSIVE TextsOf(_)
TextsOf(n) ==
    IF n = 0 THEN {<<>>}
    ELSE LET shorter == TextsOf(n - 1)
         IN shorter \cup {x \o f : x \in shorter, f \in Fragments}

DirectMessages == TextsOf(MaxFrags) \ {<<>>}

HistEntries == {UserMsg(FragHi), initialMessages[1]}

RECURSIVE HistoriesOf(_)
HistoriesOf(n) ==
    IF n = 0 THEN {<<>>}
    ELSE LET shorter == HistoriesOf(n - 1)
         IN shorter \cup {Append(h, e) : h \in shorter, e \in HistEntries}

Histories == HistoriesOf(MaxHist)

HandlerInit ==
    /\ messages = initialMessages
    /\ isLoading = FALSE
    /\ turns = <<>>
    /\ store = <<>>
    /\ toasts = <<>>
    /\ \/ \E m \in DirectMessages, h \in Histories :
             calls = <<NewCall("POST", TRUE, m, h)>>
       \/ calls = <<NewCall("POST", FALSE, <<>>, <<>>)>>
       \/ calls = <<NewCall("OPTIONS", FALSE, <<>>, <<>>)>>

HandlerNext ==
    \/ \E c \in DOMAIN calls : HandlerReceive(c)
    \/ \E c \in DOMAIN calls, a \in UpstreamAnswers : HandlerRespond(c, a)

HandlerSpec == HandlerInit /\ [][HandlerNext]_vars

(***************************************************************************)
(* Properties.                                                             *)
(***************************************************************************)
\* the calls whose context has been built
Built == {c \in DOMAIN calls : calls[c].fetches > 0}

\* the calls answered with a reply
Replied == {c \in DOMAIN calls : calls[c].pc = "done" /\ calls[c].fetches > 0
                                  /\ calls[c].resp.status = 200}

\* C1: for every history H (at most 5 entries) and message m the built
\* context has |H| + 2 entries: the system directive first, m as a user
\* entry last, and in between each H[i] with its content, role user for a
\* user message and assistant for a bot message, in order, without options.
C1_ContextShape ==
    \A c \in Built :
       LET H == calls[c].context
           b == calls[c].history
       IN /\ Len(b) = Len(H) + 2
          /\ b[1] = [role |-> "system", content |-> systemPrompt]
          /\ b[Len(b)] = [role |-> "user", content |-> calls[c].message]
          /\ \A i \in 1..Len(H) :
                /\ DOMAIN b[i + 1] = {"role", "content"}
                /\ b[i + 1].content = H[i].content
                /\ H[i].type = "user" => b[i + 1].role = "user"
                /\ H[i].type = "bot" => b[i + 1].role = "assistant"

C1_Witness ==
    \E c \in Built :
       /\ Len(calls[c].context) = 5
       /\ calls[c].context[2].type = "user"
       /\ calls[c].context[3].type = "bot"
       /\ HasOptions(calls[c].context[3])
       /\ Len(calls[c].history) = 7

\* u contains key at some position, letters compared without regard to case
ContainsAnyCase(u, key) ==
    \E i \in 1..(Len(u) - Len(key) + 1) :
       \A j \in 1..Len(key) : LowerChar(u[i + j - 1]) = key[j]

\* C2: the reply has role bot, the model text as content, and one option
\* set chosen from the user message alone: flood-risk if it contains
\* "flood risk" in any case, else emergency if it contains "emergency" in
\* any case, else the default set.
C2_ReplyOptions ==
    \A c \in Replied :
       LET u == calls[c].message
           reply == calls[c].resp.body
       IN /\ reply.type = "bot"
          /\ reply.content = calls[c].answer.text
          /\ reply.options =
                IF ContainsAnyCase(u, KeyFloodRisk) THEN floodRiskOptions
                ELSE IF ContainsAnyCase(u, KeyEmergency) THEN emergencyOptions
                ELSE defaultOptions

C2_Witness ==
    \E c \in Replied :
       /\ calls[c].message = FragEMERGENCY \o FragFloodRisk
       /\ calls[c].answer.text = TextOk
       /\ calls[c].resp.body.options = floodRiskOptions

(***************************************************************************)
(* What happened to a turn, read off the results it received.              *)
(***************************************************************************)
InFlight == {t \in DOMAIN turns : turns[t].pc # "done"}

Finished == {t \in DOMAIN turns : turns[t].pc = "done"}

NoSession(t) == turns[t].session = "none"

SessionFailed(t) == turns[t].session = "error"

UserWriteFailed(t) == turns[t].userInsert = "error"

BotWriteFailed(t) == turns[t].botInsert = "error"

Answered(t) ==
    /\ turns[t].call > 0
    /\ calls[turns[t].call].pc = "done"
    /\ calls[turns[t].call].fetches > 0

UpstreamFailed(t) == Answered(t) /\ ~calls[turns[t].call].answer.ok

Malformed(t) ==
    /\ Answered(t)
    /\ calls[turns[t].call].answer.ok
    /\ ~calls[turns[t].call].answer.choices

Failed(t) ==
    \/ NoSession(t)
    \/ SessionFailed(t)
    \/ UserWriteFailed(t)
    \/ UpstreamFailed(t)
    \/ Malformed(t)
    \/ BotWriteFailed(t)

\* every row of the store and every call was made by exactly one turn
WritesAccounted ==
    /\ \A i \in DOMAIN store :
          /\ store[i].type = "user" =>
                Cardinality({t \in DOMAIN turns : turns[t].userRow = i}) = 1
          /\ store[i].type = "bot" =>
                Cardinality({t \in DOMAIN turns : turns[t].botRow = i}) = 1
    /\ \A c \in DOMAIN calls :
          Cardinality({t \in DOMAIN turns : turns[t].call = c}) = 1

\* the error toasts shown for turn t, in order
ErrorNotices(t) ==
    LET mine == SelectSeq(toasts, LAMBDA n : n.turn = t /\ n.variant = "destructive")
    IN [i \in DOMAIN mine |-> mine[i].description]

\* C3: at most one turn is in flight at any time; no turn is started,
\* by handleSend or by handleOptionClick, while isLoading is true.
C3_OneTurnInFlight == Cardinality(InFlight) <= 1

\* the contents of the user entries of the log, in log order
RECURSIVE UserContents(_)
UserContents(log) ==
    IF log = <<>> THEN <<>>
    ELSE IF Head(log).type = "user"
    THEN <<Head(log).content>> \o UserContents(Tail(log))
    ELSE UserContents(Tail(log))

\* whether the texts can be matched, in order, to turns from..Len(turns)
\* sent in nondecreasing order
RECURSIVE InSendOrder(_, _)
InSendOrder(texts, from) ==
    IF texts = <<>> THEN TRUE
    ELSE LET later == {t \in from..Len(turns) : turns[t].userMessage = Head(texts)}
         IN /\ later # {}
            /\ InSendOrder(Tail(texts), CHOOSE t \in later : \A o \in later : t <= o)

IsPrefix(a, b) == Len(a) <= Len(b) /\ SubSeq(b, 1, Len(a)) = a

\* C4: the log is append-only (every step only adds entries at its end)
\* and its user messages appear in the order in which their turns were sent.
C4_AppendOnlyInSendOrder ==
    /\ [][IsPrefix(messages, messages')]_vars
    /\ [](InSendOrder(UserContents(messages), 1))

\* C5: a turn whose session lookup returns no session ends at once: it
\* writes nothing to the store and invokes neither handler nor model.
C5_NoSessionShortCircuit ==
    /\ WritesAccounted
    /\ \A t \in DOMAIN turns :
          NoSession(t) =>
             /\ turns[t].pc = "done"
             /\ turns[t].userRow = 0
             /\ turns[t].botRow = 0
             /\ turns[t].call = 0

C5_Witness ==
    \E t \in Finished :
       /\ NoSession(t)
       /\ store = <<>>
       /\ calls = <<>>
       /\ ErrorNotices(t) = <<SignInNotice>>

\* C6: a turn whose model call returns a non-success response writes no
\* bot message, and the user message it wrote stays in the store as written.
C6_UpstreamFailureKeepsUserRow ==
    /\ WritesAccounted
    /\ \A t \in DOMAIN turns :
          UpstreamFailed(t) =>
             /\ turns[t].botRow = 0
             /\ turns[t].pc \in {"invoke", "done"}
             /\ turns[t].userRow \in DOMAIN store
             /\ store[turns[t].userRow] =
                   [content |-> turns[t].userMessage, type |-> "user", user_id |-> UserId]

C6_Witness ==
    \E t \in Finished :
       /\ UpstreamFailed(t)
       /\ \E u \in Finished : u > t /\ turns[u].botRow > 0
       /\ store[turns[t].userRow].type = "user"

\* C7: a turn whose user-message write fails is aborted: no handler or
\* model call, no bot message written, and the generic error notice shown.
C7_UserWriteFailureAborts ==
    /\ WritesAccounted
    /\ \A t \in DOMAIN turns :
          UserWriteFailed(t) =>
             /\ turns[t].pc = "done"
             /\ turns[t].userRow = 0
             /\ turns[t].call = 0
             /\ turns[t].botRow = 0
             /\ ErrorNotices(t) = <<GenericFailure>>

C7_Witness ==
    \E t \in Finished :
       /\ UserWriteFailed(t)
       /\ calls = <<>>
       /\ store = <<>>

\* C8: whatever the outcome of a turn, the busy flag becomes false again
\* and handleSend is accepted; with no turn in flight the flag is false.
C8_FlagReleased ==
    /\ [](InFlight = {} => ~isLoading)
    /\ isLoading ~> (~isLoading /\ sendAccepted(InHello, isLoading))

C8_Witness ==
    /\ ~isLoading
    /\ \E t \in Finished : NoSession(t)
    /\ \E t \in Finished : UpstreamFailed(t)

Errored == {c \in DOMAIN calls : calls[c].pc = "done" /\ calls[c].resp.status = 500}

\* C10: the response of a failed invocation carries only the generic
\* message: no field of its body is an exception message logged server-side.
C10_NoInternalDetail ==
    \A c \in Errored :
       \A f \in DOMAIN calls[c].resp.body :
          \A i \in DOMAIN calls[c].logged :
             calls[c].resp.body[f] # calls[c].logged[i]

\* the invocations that met a failure: an unparsable body, a non-success
\* answer of the endpoint, an answer without choices
Failing == {c \in DOMAIN calls :
              /\ calls[c].method # "OPTIONS"
              /\ calls[c].pc = "done"
              /\ \/ ~calls[c].parsable
                 \/ /\ calls[c].fetches > 0
                    /\ ~calls[c].answer.ok \/ ~calls[c].answer.choices}

C12_NoRetry ==
    /\ \A c \in DOMAIN calls :
          /\ calls[c].fetches <= 1
          /\ Cardinality({t \in DOMAIN turns : turns[t].call = c}) = 1
    /\ Len(calls) = Cardinality({t \in DOMAIN turns : turns[t].call > 0})
    /\ \A t \in Finished :
          Failed(t) /\ turns[t].call > 0 =>
             /\ calls[turns[t].call].pc = "done"
             /\ calls[turns[t].call].fetches = 1

C12_Witness ==
    \E t \in Finished :
       /\ UpstreamFailed(t)
       /\ calls[turns[t].call].fetches = 1
       /\ Len(calls) = 1
       /\ Len(turns) = 2
       /\ \A u \in DOMAIN turns : turns[u].pc = "done"

C15_PreflightOnly ==
    \A c \in DOMAIN calls :
       calls[c].method = "OPTIONS" =>
          /\ calls[c].pc \in {"received", "done"}
          /\ calls[c].history = <<>>
          /\ calls[c].fetches = 0
          /\ calls[c].logged = <<>>
          /\ calls[c].pc = "done" =>
                /\ calls[c].resp.status = 200
                /\ calls[c].resp.body = <<>>
                /\ calls[c].resp.headers = corsHeaders

C15_Witness ==
    \E c \in DOMAIN calls :
       /\ calls[c].method = "OPTIONS"
       /\ ~calls[c].parsable
       /\ calls[c].pc = "done"
       /\ calls[c].resp = preflightResponse

\* C16: within a turn the steps come in the order user write, model call,
\* bot write: the handler is invoked only after the user row was written,
\* and a bot row is written only after that and after the model call
\* succeeded; a failed model call leaves the user row without a bot row.
C16_WriteCallWriteOrder ==
    /\ WritesAccounted
    /\ \A t \in DOMAIN turns :
          /\ turns[t].call > 0 => turns[t].userRow \in DOMAIN store
          /\ turns[t].pc = "insertBot" \/ turns[t].botRow > 0 =>
                /\ turns[t].userRow \in DOMAIN store
                /\ Answered(t)
                /\ calls[turns[t].call].answer.ok
                /\ calls[turns[t].call].resp.status = 200
          /\ turns[t].botRow > 0 =>
                /\ turns[t].userRow < turns[t].botRow
                /\ store[turns[t].botRow] =
                      [content |-> calls[turns[t].call].answer.text, type |-> "bot"]
          /\ UpstreamFailed(t) => turns[t].botRow = 0

C16_Witness ==
    \E t \in Finished :
       /\ UpstreamFailed(t)
       /\ InFlight = {}
       /\ Len(store) = 1
       /\ store[1] = [content |-> turns[t].userMessage, type |-> "user", user_id |-> UserId]

\* the later state of the conversation is one the widget reaches from its start
LaterStateReached ==
    /\ InFlight = {}
    /\ ~isLoading
    /\ messages = LogAfterSends
    /\ store = StoreAfterSends

\* C17: the context sent with a turn is the end of the log as it stood when
\* the turn was started (the log the handler closed over): min(5, length)
\* entries in log order; it is a copy, unchanged by later changes of the
\* log; the built context has at most 7 entries.
C17_ContextIsRecentLog ==
    /\ [][Len(turns') > Len(turns) => turns'[Len(turns')].closure = messages]_vars
    /\ [][\A c \in DOMAIN calls : calls'[c].context = calls[c].context]_vars
    /\ [](\A t \in DOMAIN turns :
            turns[t].call > 0 =>
               LET ctx == calls[turns[t].call].context
                   log == turns[t].closure
               IN /\ Len(ctx) = IF Len(log) < 5 THEN Len(log) ELSE 5
                  /\ \A i \in 1..Len(ctx) : ctx[i] = log[Len(log) - Len(ctx) + i]
                  /\ Len(calls[turns[t].call].history) <= 7)

C17_Witness ==
    \E t \in DOMAIN turns :
       /\ turns[t].call > 0
       /\ Len(turns[t].closure) = 7
       /\ Len(calls[turns[t].call].context) = 5
       /\ Len(calls[turns[t].call].history) = 7
       /\ calls[turns[t].call].context[1] = turns[t].closure[3]
       /\ calls[turns[t].call].context[5] = turns[t].closure[7]
       /\ messages # turns[t].closure

\* C18: a turn puts its user message into the log at most once, so the log
\* never has more user entries than turns were started.
C18_UserMessageOnce == Len(UserContents(messages)) <= Len(turns)

\* the bot entries of the log after the greeting
RepliesShown == {i \in DOMAIN messages : i > 1 /\ messages[i].type = "bot"}

\* C19: a bot reply is in the log only once it is in the store: every bot
\* entry after the greeting has a bot row with its content, there are as
\* many such entries as turns that wrote a bot row, and a turn whose bot
\* write failed after a successful model call has written and shown none.
C19_ShownOnlyIfStored ==
    /\ \A i \in RepliesShown :
          \E j \in DOMAIN store : store[j] = BotRow(messages[i].content)
    /\ Cardinality(RepliesShown) =
          Cardinality({t \in DOMAIN turns : turns[t].botRow > 0})
    /\ \A t \in DOMAIN turns :
          BotWriteFailed(t) =>
             /\ calls[turns[t].call].resp.status = 200
             /\ turns[t].botRow = 0
             /\ turns[t].pc = "done"

C19_Witness ==
    \E t \in Finished :
       /\ BotWriteFailed(t)
       /\ calls[turns[t].call].resp.body.content = TextOk
       /\ InFlight = {}
       /\ RepliesShown = {}
       /\ ErrorNotices(t) = <<GenericFailure>>
====
